---- MODULE Spec2Model ----
(***************************************************************************)
(* A model of the Composition class of hmmm (src/composition.ts, the       *)
(* exported class that cli.ts and index.spec.ts import).                    *)
(*                                                                         *)
(* JavaScript arrays are modelled as functions over 0-based indices; an    *)
(* index below the array's length that is missing from the domain is a     *)
(* hole.  The value undefined is modelled by Undefined and NaN by NaN.     *)
(***************************************************************************)
EXTENDS Integers, Sequences, FiniteSets, TLC

VARIABLES paths, reads, all, pc, voices, length, detected, message, error,
          computed, calls, outcomes, view

vars == <<paths, reads, all, pc, voices, length, detected, message, error,
          computed, calls, outcomes, view>>

----------------------------------------------------------------------------
(* Bounds of the model *)

MaxVoices == 3
MaxNotes == 2
MaxCalls == 2
MaxPitch == 64

(* The MIDI note numbers the modelled files draw from: 62-60 = 2, 67-60 = 7, *)
(* 67-62 = 5, 72-60 = 12 (an octave), 72-62 = 10, 72-67 = 5.                 *)
Pitches == {60, 62, 67, 72}

----------------------------------------------------------------------------
(* JavaScript values and arrays *)

Undefined == -1000
NaN == -1

Max(S) == CHOOSE x \in S : \A y \in S : y <= x

(* arr.length of an array built from [] by index assignment or push *)
ArrLength(arr) == IF DOMAIN arr = {} THEN 0 ELSE Max(DOMAIN arr) + 1

(* arr[i]: undefined for a hole or an index out of range *)
At(arr, i) == IF i \in DOMAIN arr THEN arr[i] ELSE Undefined

(* arr.push(x) *)
Push(arr, x) ==
    [i \in DOMAIN arr \cup {ArrLength(arr)} |->
        IF i \in DOMAIN arr THEN arr[i] ELSE x]

(* The % operator of JavaScript: the remainder takes the dividend's sign *)
JSRem(x, m) == IF x >= 0 THEN x % m ELSE 0 - ((0 - x) % m)

(* === on numbers: NaN is equal to nothing, itself included *)
StrictEq(x, y) == x # NaN /\ y # NaN /\ x = y

(* The note lists tonejs parses from a file: track 0's notes, in order *)
Buffers == UNION {[0..(n - 1) -> Pitches] : n \in 0..MaxNotes}

----------------------------------------------------------------------------
(* Composition: static members *)

(* Mutant: the perfect fourth is left out of the banned intervals *)
bannedIntervals_noFourth == <<0, 7>>

bannedIntervals == <<0, 5, 7>>

(* Array.prototype.includes *)
Includes(arr, x) == \E k \in DOMAIN arr : arr[k] = x /\ x # NaN

DEBUG == FALSE

(* Mutant: the loop flag is ignored and no first note is appended *)
processMidis_ignoresLoop(midis, loop) == midis

processMidis(midis, loop) ==
    [k \in DOMAIN midis |->
        LET notes == midis[k]
        IN  IF loop THEN Push(notes, At(notes, 0)) ELSE notes]

(* Mutant: the bare remainder, negative for a lower first pitch *)
interval_remainder(n1, n2) ==
    IF n1 = Undefined \/ n2 = Undefined
    THEN NaN
    ELSE JSRem(n1 - n2, 12)

(* Mutant: the distance of the two pitches, whichever is higher *)
interval_absolute(n1, n2) ==
    IF n1 = Undefined \/ n2 = Undefined
    THEN NaN
    ELSE JSRem(IF n1 >= n2 THEN n1 - n2 ELSE n2 - n1, 12)

interval(n1, n2) ==
    IF n1 = Undefined \/ n2 = Undefined
    THEN NaN
    ELSE JSRem(JSRem(n1 - n2, 12) + 12, 12)

(* Mutant: the inner loop starts at j = i and stores the self-pair *)
timeline_selfPairs(vs, len) ==
    [t \in 0..(len - 1) |->
        [i \in 0..(ArrLength(vs) - 1) |->
            [j \in i..(ArrLength(vs) - 1) |->
                interval(At(vs[i], t), At(vs[j], t))]]]

(* get timeline(): timeline[t][i][j] for t < length, i < voices.length,     *)
(* i < j < voices.length; row i is [] when no j follows it                  *)
timeline(vs, len) ==
    [t \in 0..(len - 1) |->
        [i \in 0..(ArrLength(vs) - 1) |->
            [j \in (i + 1)..(ArrLength(vs) - 1) |->
                interval(At(vs[i], t), At(vs[j], t))]]]

(* Mutant: an entry is set when the interval is banned now and banned next, *)
(* equal or not                                                            *)
motionTimeline_bothBanned(vs, len) ==
    LET tl == timeline(vs, len)
    IN  [t \in DOMAIN tl |->
            LET matrix == tl[t]
            IN  [i \in 0..(ArrLength(matrix) - 1) |->
                    LET intervals == matrix[i]
                    IN  IF (t + 1) \notin DOMAIN tl
                        THEN <<>>
                        ELSE LET nextIntervals == tl[t + 1][i]
                             IN  [j \in (i + 1)..(ArrLength(intervals) - 1) |->
                                    Includes(bannedIntervals, intervals[j])
                                    /\ Includes(bannedIntervals, At(nextIntervals, j))]]]

(* Mutant: the last step is compared with step 0 instead of having no next *)
motionTimeline_wrapsAround(vs, len) ==
    LET tl == timeline(vs, len)
    IN  [t \in DOMAIN tl |->
            LET matrix == tl[t]
            IN  [i \in 0..(ArrLength(matrix) - 1) |->
                    LET intervals == matrix[i]
                        nextIntervals == tl[(t + 1) % ArrLength(tl)][i]
                    IN  [j \in (i + 1)..(ArrLength(intervals) - 1) |->
                            Includes(bannedIntervals, intervals[j])
                            /\ StrictEq(intervals[j], At(nextIntervals, j))]]]

(* get motionTimeline() *)
motionTimeline(vs, len) ==
    LET tl == timeline(vs, len)
    IN  [t \in DOMAIN tl |->
            LET matrix == tl[t]
            IN  [i \in 0..(ArrLength(matrix) - 1) |->
                    LET intervals == matrix[i]
                    IN  IF (t + 1) \notin DOMAIN tl
                        THEN <<>>
                        ELSE LET nextIntervals == tl[t + 1][i]
                             IN  [j \in (i + 1)..(ArrLength(intervals) - 1) |->
                                    Includes(bannedIntervals, intervals[j])
                                    /\ StrictEq(intervals[j], At(nextIntervals, j))]]]

(* get intervalGrid() of index.ts: the timeline with rows filled by push,   *)
(* so the interval of voices i and j is element j - i - 1 of row i         *)
intervalGrid(vs, len) ==
    [t \in 0..(len - 1) |->
        [i \in 0..(ArrLength(vs) - 1) |->
            [k \in 0..(ArrLength(vs) - i - 2) |->
                interval(At(vs[i], t), At(vs[i + 1 + k], t))]]]

(* get parallelMotion() of index.ts *)
parallelMotion(vs, len) ==
    LET grid == intervalGrid(vs, len)
    IN  [gIdx \in DOMAIN grid |->
            LET ic == grid[gIdx]
            IN  [icIdx \in DOMAIN ic |->
                    LET intervals == ic[icIdx]
                    IN  IF (gIdx + 1) \notin DOMAIN grid
                        THEN <<>>
                        ELSE LET nextIntervals == grid[gIdx + 1][icIdx]
                             IN  [iIdx \in DOMAIN intervals |->
                                    IF ~Includes(bannedIntervals, intervals[iIdx])
                                    THEN FALSE
                                    ELSE StrictEq(intervals[iIdx],
                                                  At(nextIntervals, iIdx))]]]

(* The template literal validateMotion appends for one occurrence; a line   *)
(* of the message is modelled by its three interpolated values              *)
(* <<t, i + 1, j + 1>>                                                      *)
MotionLine == "Parallel motion detected at time ${t} between voices ${i + 1} and ${j + 1}\n"
LengthMessage == "Voices are not the same length"

(* Mutant: the voices are printed with their 0-based indices *)
Line_zeroBased(t, i, j) == <<t, i, j>>

Line(t, i, j) == <<t, i + 1, j + 1>>

(* A truthy element of a boolean array; a hole reads as undefined *)
Truthy(row, j) == j \in DOMAIN row /\ row[j]

(* for (const [j, check] of row.entries()), from index j on *)
RECURSIVE ScanRow(_, _, _, _, _)
ScanRow(row, t, i, j, acc) ==
    IF j >= ArrLength(row)
    THEN acc
    ELSE ScanRow(row, t, i, j + 1,
                 IF Truthy(row, j)
                 THEN [detected |-> TRUE,
                       message |-> Append(acc.message, Line(t, i, j))]
                 ELSE acc)

(* for (const [i, row] of matrix.entries()), from index i on *)
RECURSIVE ScanMatrix(_, _, _, _)
ScanMatrix(matrix, t, i, acc) ==
    IF i >= ArrLength(matrix)
    THEN acc
    ELSE ScanMatrix(matrix, t, i + 1, ScanRow(matrix[i], t, i, 0, acc))

(* for (const [t, matrix] of this.motionTimeline.entries()), from index t on *)
RECURSIVE ScanTimeline(_, _, _)
ScanTimeline(mTimeline, t, acc) ==
    IF t >= ArrLength(mTimeline)
    THEN acc
    ELSE ScanTimeline(mTimeline, t + 1, ScanMatrix(mTimeline[t], t, 0, acc))

(* The loops of validateMotion, before its final throw *)
validateMotionScan(vs, len) ==
    ScanTimeline(motionTimeline(vs, len), 0,
                 [detected |-> FALSE, message |-> <<>>])

(* Mutant: every() in place of some() *)
validateLengthThrows_every(vs, len) ==
    LET first == len
        lengths == [k \in DOMAIN vs |-> ArrLength(vs[k])]
    IN  \A k \in DOMAIN lengths : lengths[k] # first

(* The check of validateLength: TRUE when it throws *)
validateLengthThrows(vs, len) ==
    LET first == len
        lengths == [k \in DOMAIN vs |-> ArrLength(vs[k])]
    IN  \E k \in DOMAIN lengths : lengths[k] # first

----------------------------------------------------------------------------
(* Errors and promises *)

NoError == [name |-> "none", text |-> "", lines |-> <<>>]

(* new Error(message) *)
NewError(text, lines) == [name |-> "Error", text |-> text, lines |-> lines]

(* Mutant: Promise.allSettled, fulfilled once no read is pending *)
PromiseAll_allSettled(ps) ==
    IF \A k \in DOMAIN ps : ps[k].status # "pending" THEN "fulfilled" ELSE "pending"

(* Promise.all over the read promises: rejected with the first rejection,  *)
(* fulfilled once every promise is                                         *)
PromiseAll(ps) ==
    IF \E k \in DOMAIN ps : ps[k].status = "rejected" THEN "rejected"
    ELSE IF \A k \in DOMAIN ps : ps[k].status = "fulfilled" THEN "fulfilled"
    ELSE "pending"

NoView == [kind |-> "none", args |-> <<>>, value |-> <<>>]

----------------------------------------------------------------------------
(* The state machine *)

Init ==
    /\ paths \in 0..MaxVoices
    /\ reads = <<>>
    /\ all = "none"
    /\ pc = "Idle"
    /\ voices = <<>>
    /\ length = 0
    /\ detected = FALSE
    /\ message = <<>>
    /\ error = NoError
    /\ computed = {}
    /\ calls = 0
    /\ outcomes = <<>>
    /\ view = NoView

(* createFromPaths up to its await: every readFile is issued at once *)
CreateFromPaths ==
    /\ pc = "Idle"
    /\ reads' = [k \in 0..(paths - 1) |-> [status |-> "pending", value |-> <<>>]]
    /\ all' = PromiseAll(reads')
    /\ pc' = "Awaiting"
    /\ UNCHANGED <<paths, voices, length, detected, message, error, computed,
                   calls, outcomes, view>>

(* fs.readFile(paths[k]) completes with the file's contents *)
ReadFulfilled ==
    \E k \in DOMAIN reads, buf \in Buffers :
        /\ reads[k].status = "pending"
        /\ reads' = [reads EXCEPT ![k] = [status |-> "fulfilled", value |-> buf]]
        /\ all' = PromiseAll(reads')
        /\ UNCHANGED <<paths, pc, voices, length, detected, message, error,
                       computed, calls, outcomes, view>>

(* fs.readFile(paths[k]) fails *)
ReadRejected ==
    \E k \in DOMAIN reads :
        /\ reads[k].status = "pending"
        /\ reads' = [reads EXCEPT ![k] = [status |-> "rejected", value |-> <<>>]]
        /\ all' = PromiseAll(reads')
        /\ UNCHANGED <<paths, pc, voices, length, detected, message, error,
                       computed, calls, outcomes, view>>

(* The await of createFromPaths throws the rejection of Promise.all *)
AwaitThrows ==
    /\ pc = "Awaiting"
    /\ all = "rejected"
    /\ pc' = "Rejected"
    /\ error' = NewError("readFile", <<>>)
    /\ UNCHANGED <<paths, reads, all, voices, length, detected, message,
                   computed, calls, outcomes, view>>

(* The await returns the files; Composition.create runs the constructor    *)
(* and enters validate().  With no file, this.voices[0] is undefined and   *)
(* reading its length throws a TypeError.                                  *)
Create ==
    /\ pc = "Awaiting"
    /\ all = "fulfilled"
    /\ LET files == [k \in DOMAIN reads |-> reads[k].value]
           vs == processMidis(files, TRUE)
       IN  /\ voices' = vs
           /\ IF ArrLength(vs) = 0
              THEN /\ pc' = "Rejected"
                   /\ error' = [name |-> "TypeError", text |-> "", lines |-> <<>>]
                   /\ UNCHANGED <<length, calls>>
              ELSE /\ length' = ArrLength(vs[0])
                   /\ pc' = "Unvalidated"
                   /\ calls' = 1
                   /\ UNCHANGED error
    /\ UNCHANGED <<paths, reads, all, detected, message, computed, outcomes, view>>

(* Mutant: the timelines are computed before the length check *)
ValidateLength_timelinesFirst ==
    /\ pc = "Unvalidated"
    /\ computed' = {"timeline", "motionTimeline"}
    /\ IF validateLengthThrows(voices, length)
       THEN /\ pc' = "Failed"
            /\ error' = [name |-> "Error", text |-> LengthMessage, lines |-> <<>>]
            /\ outcomes' = Append(outcomes, [pc |-> "Failed", error |-> error'])
       ELSE /\ pc' = "LengthChecked"
            /\ UNCHANGED <<error, outcomes>>
    /\ UNCHANGED <<paths, reads, all, voices, length, detected, message, calls, view>>

(* validate(): this.validateLength(), then the DEBUG dump *)
ValidateLength ==
    /\ pc = "Unvalidated"
    /\ IF validateLengthThrows(voices, length)
       THEN /\ pc' = "Failed"
            /\ error' = NewError(LengthMessage, <<>>)
            /\ outcomes' = Append(outcomes, [pc |-> "Failed", error |-> error'])
            /\ UNCHANGED computed
       ELSE /\ pc' = "LengthChecked"
            /\ computed' = IF DEBUG THEN {"timeline", "motionTimeline"} ELSE computed
            /\ UNCHANGED <<error, outcomes>>
    /\ UNCHANGED <<paths, reads, all, voices, length, detected, message, calls, view>>

(* validateMotion(): the scan of this.motionTimeline *)
ValidateMotionScan ==
    /\ pc = "LengthChecked"
    /\ LET r == validateMotionScan(voices, length)
       IN  /\ detected' = r.detected
           /\ message' = r.message
    /\ computed' = computed \cup {"timeline", "motionTimeline"}
    /\ pc' = "MotionChecked"
    /\ UNCHANGED <<paths, reads, all, voices, length, error, calls, outcomes, view>>

(* validateMotion(): if (detected) throw new Error(message) *)
ValidateMotionEnd ==
    /\ pc = "MotionChecked"
    /\ IF detected
       THEN /\ pc' = "Failed"
            /\ error' = NewError(MotionLine, message)
       ELSE /\ pc' = "Valid"
            /\ UNCHANGED error
    /\ outcomes' = Append(outcomes, [pc |-> pc', error |-> error'])
    /\ UNCHANGED <<paths, reads, all, voices, length, detected, message,
                   computed, calls, view>>

(* Mutant: validate() appends the first note to every voice again *)
ValidateAgain_appendsAgain ==
    /\ pc \in {"Valid", "Failed"}
    /\ calls < MaxCalls
    /\ calls' = calls + 1
    /\ pc' = "Unvalidated"
    /\ voices' = processMidis(voices, TRUE)
    /\ detected' = FALSE
    /\ message' = <<>>
    /\ error' = [name |-> "none", text |-> "", lines |-> <<>>]
    /\ computed' = {}
    /\ UNCHANGED <<paths, reads, all, length, outcomes, view>>

(* A holder of the instance calls validate() again *)
ValidateAgain ==
    /\ pc \in {"Valid", "Failed"}
    /\ calls < MaxCalls
    /\ calls' = calls + 1
    /\ pc' = "Unvalidated"
    /\ detected' = FALSE
    /\ message' = <<>>
    /\ error' = NoError
    /\ computed' = {}
    /\ UNCHANGED <<paths, reads, all, voices, length, outcomes, view>>

(* A holder of the instance reads the timeline getter *)
GetTimeline ==
    /\ pc \in {"Valid", "Failed"}
    /\ view' = [kind |-> "timeline", args |-> <<>>, value |-> timeline(voices, length)]
    /\ UNCHANGED <<paths, reads, all, pc, voices, length, detected, message,
                   error, computed, calls, outcomes>>

(* A holder of the instance reads the motionTimeline getter *)
GetMotionTimeline ==
    /\ pc \in {"Valid", "Failed"}
    /\ view' = [kind |-> "motionTimeline", args |-> <<>>,
                value |-> motionTimeline(voices, length)]
    /\ UNCHANGED <<paths, reads, all, pc, voices, length, detected, message,
                   error, computed, calls, outcomes>>

(* A holder of an index.ts instance reads the intervalGrid getter *)
GetIntervalGrid ==
    /\ pc \in {"Valid", "Failed"}
    /\ view' = [kind |-> "intervalGrid", args |-> <<>>,
                value |-> intervalGrid(voices, length)]
    /\ UNCHANGED <<paths, reads, all, pc, voices, length, detected, message,
                   error, computed, calls, outcomes>>

(* A holder of an index.ts instance reads the parallelMotion getter *)
GetParallelMotion ==
    /\ pc \in {"Valid", "Failed"}
    /\ view' = [kind |-> "parallelMotion", args |-> <<>>,
                value |-> parallelMotion(voices, length)]
    /\ UNCHANGED <<paths, reads, all, pc, voices, length, detected, message,
                   error, computed, calls, outcomes>>

Next ==
    \/ CreateFromPaths
    \/ ReadFulfilled
    \/ ReadRejected
    \/ AwaitThrows
    \/ Create
    \/ ValidateLength
    \/ ValidateMotionScan
    \/ ValidateMotionEnd
    \/ ValidateAgain
    \/ GetTimeline
    \/ GetMotionTimeline
    \/ GetIntervalGrid
    \/ GetParallelMotion

Spec == Init /\ [][Next]_vars

----------------------------------------------------------------------------
(* Composition.interval as a pure function of two integer pitches *)

InitInterval ==
    /\ paths = 0
    /\ reads = <<>>
    /\ all = "none"
    /\ pc = "Idle"
    /\ voices = <<>>
    /\ length = 0
    /\ detected = FALSE
    /\ message = <<>>
    /\ error = NoError
    /\ computed = {}
    /\ calls = 0
    /\ outcomes = <<>>
    /\ view \in {[kind |-> "args", args |-> <<n1, n2>>, value |-> <<>>] :
                    n1 \in (0 - MaxPitch)..MaxPitch, n2 \in (0 - MaxPitch)..MaxPitch}

(* Composition.interval(n1, n2) is called *)
IntervalCall ==
    /\ view.kind = "args"
    /\ view' = [kind |-> "interval", args |-> view.args,
                value |-> interval(view.args[1], view.args[2])]
    /\ UNCHANGED <<paths, reads, all, pc, voices, length, detected, message,
                   error, computed, calls, outcomes>>

(* Composition.interval(n2, n1) is called with the same pitches, swapped *)
IntervalSwapped ==
    /\ view.kind = "interval"
    /\ view' = [kind |-> "swapped", args |-> view.args,
                value |-> <<view.value, interval(view.args[2], view.args[1])>>]
    /\ UNCHANGED <<paths, reads, all, pc, voices, length, detected, message,
                   error, computed, calls, outcomes>>

NextInterval ==
    \/ IntervalCall
    \/ IntervalSwapped

SpecInterval == InitInterval /\ [][NextInterval]_vars

----------------------------------------------------------------------------
(* What the claims are stated in: the pitch-class difference of two voices  *)
(* computed with the mathematical modulo, straight from the voices          *)

Banned == {0, 5, 7}

Constructed == pc \in {"Unvalidated", "LengthChecked", "MotionChecked", "Valid", "Failed"}

Returned == pc \in {"Valid", "Failed"}

HasPitch(i, t) ==
    i \in DOMAIN voices /\ t \in DOMAIN voices[i] /\ voices[i][t] # Undefined

PitchClassDiff(t, i, j) == (voices[i][t] - voices[j][t]) % 12

(* Voices i and j hold the same banned interval at t and at t + 1 *)
Held(t, i, j) ==
    /\ HasPitch(i, t) /\ HasPitch(j, t) /\ HasPitch(i, t + 1) /\ HasPitch(j, t + 1)
    /\ PitchClassDiff(t, i, j) \in Banned
    /\ PitchClassDiff(t, i, j) = PitchClassDiff(t + 1, i, j)

(* The sites (t, i, j), t in [0, T-2] and i < j, of a held banned interval *)
Sites ==
    {s \in (0..(length - 2)) \X (DOMAIN voices) \X (DOMAIN voices) :
        s[2] < s[3] /\ Held(s[1], s[2], s[3])}

SameLength == \A k \in DOMAIN voices : Cardinality(DOMAIN voices[k]) = length

MotionFailure == pc = "Failed" /\ error.text = MotionLine

LengthFailure == pc = "Failed" /\ error.text = LengthMessage

(* Entry (t, i, j) of a motion timeline is present and true *)
Entry(mTimeline, t, i, j) ==
    /\ t \in DOMAIN mTimeline
    /\ i \in DOMAIN mTimeline[t]
    /\ j \in DOMAIN mTimeline[t][i]
    /\ mTimeline[t][i][j]

(* <<t, i, j>> precedes <<u, k, l>> in the scan order *)
Before(a, b) ==
    \/ a[1] < b[1]
    \/ a[1] = b[1] /\ a[2] < b[2]
    \/ a[1] = b[1] /\ a[2] = b[2] /\ a[3] < b[3]

----------------------------------------------------------------------------
(* C1: for a composition whose voices all have the same length T, validate() *)
(* returns normally if and only if no voice pair i < j holds a banned        *)
(* interval unchanged from some t in [0, T-2] to t + 1; otherwise it fails   *)
(* with the parallel-motion error.                                           *)
C1_ValidIffNoHeldBannedInterval ==
    (Returned /\ SameLength) =>
        /\ (pc = "Valid") <=> (Sites = {})
        /\ (pc = "Failed") => (error.name = "Error" /\ error.text = MotionLine)

(* C1 witness: three voices of three steps validate although a banned       *)
(* interval sounds, because it changes at the next step                     *)
C1_Witness ==
    /\ pc = "Valid"
    /\ Cardinality(DOMAIN voices) = 3
    /\ length = 3
    /\ SameLength
    /\ \E i \in DOMAIN voices, j \in DOMAIN voices :
          i < j /\ PitchClassDiff(0, i, j) \in Banned

C4_EntryIffBannedAndHeld ==
    (view.kind = "motionTimeline") =>
        \A t \in 0..(length - 2), i \in DOMAIN voices, j \in DOMAIN voices :
            i < j => (Entry(view.value, t, i, j) <=> Held(t, i, j))

(* C4 witness: in one motion timeline, a pair flagged although neither      *)
(* voice moves and a pair flagged although its distance in semitones        *)
(* changes (by an octave)                                                   *)
C4_Witness ==
    /\ view.kind = "motionTimeline"
    /\ SameLength
    /\ \E i \in DOMAIN voices, j \in DOMAIN voices :
          /\ i < j
          /\ Entry(view.value, 0, i, j)
          /\ voices[i][0] = voices[i][1]
          /\ voices[j][0] = voices[j][1]
    /\ \E i \in DOMAIN voices, j \in DOMAIN voices :
          /\ i < j
          /\ Entry(view.value, 0, i, j)
          /\ voices[i][0] - voices[j][0] # voices[i][1] - voices[j][1]

(* C5: for all integer pitches a and b, interval(a, b) is the non-negative  *)
(* representative of (a - b) modulo 12, in [0, 11]; interval(62, 60) = 2,   *)
(* interval(60, 62) = 10, interval(a, a) = 0 and interval(a + 12, b) =      *)
(* interval(a, b).                                                          *)
C5_IntervalIsMathematicalModulo ==
    (view.kind = "interval") =>
        LET a == view.args[1]
            b == view.args[2]
        IN  /\ view.value = (a - b) % 12
            /\ view.value \in 0..11
            /\ view.value = ((a + 12) - b) % 12
            /\ (a = b) => (view.value = 0)
            /\ (a = 62 /\ b = 60) => (view.value = 2)
            /\ (a = 60 /\ b = 62) => (view.value = 10)

(* C5 witness: a below b by more than an octave, 47 - 62 = -15, gives 9     *)
C5_Witness ==
    /\ view.kind = "interval"
    /\ view.args = <<47, 62>>
    /\ view.value = 9

C7_EngineStartsAfterAllReads ==
    /\ (pc # "Idle") => (DOMAIN reads = 0..(paths - 1))
    /\ Constructed =>
          /\ \A k \in DOMAIN reads : reads[k].status = "fulfilled"
          /\ DOMAIN voices = DOMAIN reads
          /\ all = "fulfilled"
    /\ (\E k \in DOMAIN reads : reads[k].status # "fulfilled") =>
          /\ pc \in {"Awaiting", "Rejected"}
          /\ voices = <<>>
          /\ calls = 0
          /\ computed = {}
          /\ outcomes = <<>>
    /\ (pc = "Rejected" /\ paths > 0) =>
          /\ \E k \in DOMAIN reads : reads[k].status = "rejected"
          /\ error = [name |-> "Error", text |-> "readFile", lines |-> <<>>]

(* C7 witness: one read has failed, one has delivered a voice with notes    *)
(* and one is still pending; createFromPaths has rejected                   *)
C7_Witness ==
    /\ pc = "Rejected"
    /\ \E k \in DOMAIN reads : reads[k].status = "rejected"
    /\ \E k \in DOMAIN reads :
          reads[k].status = "fulfilled" /\ DOMAIN reads[k].value # {}
    /\ \E k \in DOMAIN reads : reads[k].status = "pending"
    /\ voices = <<>>

(* The interval class of files i and j at step t, from the notes as read *)
FileDiff(t, i, j) == (reads[i].value[t] - reads[j].value[t]) % 12

NoteCount(k) == Cardinality(DOMAIN reads[k].value)

(* C8: a constructed composition has the loop augmentation applied: a voice *)
(* of n >= 1 notes has length n + 1, keeps its notes and ends with its      *)
(* first note; so the motion entry (n-1, i, j) is true exactly when the     *)
(* interval of voices i and j at the last step n-1 is banned and equals     *)
(* their interval at step 0, and validate() reports it.                     *)
C8_LoopAugmentation ==
    /\ Constructed =>
          \A k \in DOMAIN voices :
              NoteCount(k) >= 1 =>
                  /\ DOMAIN voices[k] = 0..NoteCount(k)
                  /\ voices[k][NoteCount(k)] = voices[k][0]
                  /\ \A t \in 0..(NoteCount(k) - 1) : voices[k][t] = reads[k].value[t]
    /\ \A i \in DOMAIN voices, j \in DOMAIN voices :
          (i < j /\ NoteCount(i) >= 1 /\ NoteCount(j) = NoteCount(i)
                 /\ NoteCount(i) <= length - 1) =>
              LET last == NoteCount(i) - 1
                  wraps == /\ FileDiff(last, i, j) \in Banned
                           /\ FileDiff(last, i, j) = FileDiff(0, i, j)
              IN  /\ (view.kind = "motionTimeline") =>
                        (Entry(view.value, last, i, j) <=> wraps)
                  /\ (Returned /\ SameLength /\ wraps) =>
                        /\ MotionFailure
                        /\ \E k \in DOMAIN error.lines :
                              error.lines[k] = <<last, i + 1, j + 1>>

(* C8 witness: two voices that both move between their two notes and whose *)
(* banned interval at the last step equals the one at step 0; the entry at *)
(* the last step is set                                                    *)
C8_Witness ==
    /\ view.kind = "motionTimeline"
    /\ MotionFailure
    /\ \E i \in DOMAIN voices, j \in DOMAIN voices :
          /\ i < j
          /\ NoteCount(i) = 2 /\ NoteCount(j) = 2
          /\ reads[i].value[0] # reads[i].value[1]
          /\ reads[j].value[0] # reads[j].value[1]
          /\ Entry(view.value, 1, i, j)

(* C9: validation is idempotent and free of side effects: validate() calls  *)
(* and reads of timeline / motionTimeline leave voices and length as they   *)
(* were constructed, and every validate() call on a composition ends the    *)
(* same way, with the same error and the same list of occurrences.          *)
C9_ValidationIsIdempotent ==
    /\ [](\A k \in DOMAIN outcomes, l \in DOMAIN outcomes : outcomes[k] = outcomes[l])
    /\ [][Constructed => (voices' = voices /\ length' = length)]_vars
    /\ [][(view.kind # "none" /\ view'.kind = view.kind) => view' = view]_vars

(* C9 witness: a second validate() call has failed as the first did, with   *)
(* two or more occurrences, and the timeline has been read                  *)
C9_Witness ==
    /\ Len(outcomes) = 2
    /\ outcomes[2].pc = "Failed"
    /\ Len(outcomes[2].error.lines) >= 2
    /\ view.kind = "timeline"

(* The steps validate() can take *)
ValidatorSteps ==
    {<<"Unvalidated", "LengthChecked">>, <<"Unvalidated", "Failed">>,
     <<"LengthChecked", "MotionChecked">>,
     <<"MotionChecked", "Valid">>, <<"MotionChecked", "Failed">>,
     <<"Valid", "Unvalidated">>, <<"Failed", "Unvalidated">>}

(* C10: in validate() the length check runs before motion detection and     *)
(* short-circuits it: when a voice's length differs from composition.length *)
(* validate() fails with the length error and has computed neither          *)
(* timeline; a parallel-motion failure is only reported for a composition   *)
(* that passed the length check (Unvalidated -> LengthChecked ->            *)
(* MotionChecked -> Valid, or Failed at either checkpoint).                 *)
C10_LengthCheckShortCircuits ==
    /\ [](/\ LengthFailure => (computed = {})
          /\ (Constructed /\ ~SameLength) =>
                (pc \in {"Unvalidated", "Failed"} /\ computed = {} /\ ~MotionFailure)
          /\ (pc \in {"LengthChecked", "MotionChecked", "Valid"} \/ MotionFailure) =>
                SameLength
          /\ (pc \in {"MotionChecked", "Valid"} \/ MotionFailure) =>
                (computed = {"timeline", "motionTimeline"}))
    /\ [][(Constructed /\ pc' # pc) => (<<pc, pc'>> \in ValidatorSteps)]_vars

(* C10 witness: validate() has failed with the length error and computed    *)
(* nothing, although two of the voices hold a banned interval               *)
C10_Witness ==
    /\ LengthFailure
    /\ computed = {}
    /\ \E i \in DOMAIN voices, j \in DOMAIN voices : i < j /\ Held(0, i, j)

(* C11: the motion timeline has as many time entries T as the timeline,     *)
(* and at the final index T-1, which has no successor, every row is empty:  *)
(* no entry (T-1, i, j) is true, computing it reads nothing out of range,   *)
(* and validateMotion never reports a violation at time T-1.                *)
C11_LastStepHasNoEntries ==
    /\ (view.kind \in {"timeline", "motionTimeline", "intervalGrid", "parallelMotion"}) =>
          (DOMAIN view.value = 0..(length - 1))
    /\ (view.kind \in {"motionTimeline", "parallelMotion"}) =>
          /\ DOMAIN view.value[length - 1] = DOMAIN voices
          /\ \A i \in DOMAIN voices : DOMAIN view.value[length - 1][i] = {}
          /\ \A i \in DOMAIN voices, j \in DOMAIN voices :
                ~Entry(view.value, length - 1, i, j)
    /\ (pc = "MotionChecked" \/ MotionFailure) =>
          \A k \in DOMAIN message : message[k][1] < length - 1
    /\ MotionFailure =>
          \A k \in DOMAIN error.lines : error.lines[k][1] < length - 1

(* C11 witness: a motion timeline of three voices and three steps in which  *)
(* a pair is flagged at step 1 and sounds the same banned interval at the   *)
(* final step 2, whose rows are nevertheless empty                          *)
C11_Witness ==
    /\ view.kind = "motionTimeline"
    /\ MotionFailure
    /\ DOMAIN voices = 0..2
    /\ length = 3
    /\ \E i \in DOMAIN voices, j \in DOMAIN voices :
          /\ i < j
          /\ Entry(view.value, 1, i, j)
          /\ PitchClassDiff(2, i, j) \in Banned
          /\ DOMAIN view.value[2][i] = {}

(* The interval class the timeline is to hold for voices i and j at t; NaN *)
(* where a voice has no pitch at t                                          *)
ExpectedInterval(t, i, j) ==
    IF HasPitch(i, t) /\ HasPitch(j, t) THEN PitchClassDiff(t, i, j) ELSE NaN

(* The (row, index) positions of a matrix that hold a value *)
Stored(matrix) ==
    {p \in (DOMAIN matrix) \X (0..MaxVoices) : p[2] \in DOMAIN matrix[p[1]]}

(* C12: for V voices of common length L the timeline has exactly L entries, *)
(* and the entry at each time t holds exactly V*(V-1)/2 interval values,    *)
(* one for every pair i < j, with value interval(voices[i][t],              *)
(* voices[j][t]); nothing is stored for a self-pair or for a pair j < i.    *)
C12_TimelineShape ==
    LET V == Cardinality(DOMAIN voices)
    IN  /\ (view.kind = "timeline") =>
              /\ DOMAIN view.value = 0..(length - 1)
              /\ \A t \in DOMAIN view.value :
                    /\ DOMAIN view.value[t] = DOMAIN voices
                    /\ 2 * Cardinality(Stored(view.value[t])) = V * (V - 1)
                    /\ \A i \in DOMAIN voices :
                          /\ DOMAIN view.value[t][i] = {j \in DOMAIN voices : i < j}
                          /\ \A j \in DOMAIN view.value[t][i] :
                                view.value[t][i][j] = ExpectedInterval(t, i, j)
        /\ (view.kind = "intervalGrid") =>
              /\ DOMAIN view.value = 0..(length - 1)
              /\ \A t \in DOMAIN view.value :
                    /\ DOMAIN view.value[t] = DOMAIN voices
                    /\ 2 * Cardinality(Stored(view.value[t])) = V * (V - 1)
                    /\ \A i \in DOMAIN voices :
                          /\ DOMAIN view.value[t][i] = 0..(V - i - 2)
                          /\ \A k \in DOMAIN view.value[t][i] :
                                view.value[t][i][k] = ExpectedInterval(t, i, i + 1 + k)

(* C12 witness: the timeline of three voices of common length 3: three      *)
(* entries of three values each, the intervals 7, 5 and 10 at time 0        *)
C12_Witness ==
    /\ view.kind = "timeline"
    /\ SameLength
    /\ DOMAIN voices = 0..2
    /\ length = 3
    /\ Cardinality(Stored(view.value[0])) = 3
    /\ view.value[0][0][1] = 7
    /\ view.value[0][0][2] = 5
    /\ view.value[0][1][2] = 10

====
